---- MODULE Spec2Model ----
(***************************************************************************)
(* A model of the reliable data transfer engine of src/src/rdt.py and its  *)
(* wire format src/src/packet.py: the sliding-window sender (producer,     *)
(* ACK-ingest worker, timeout worker), the receiver (datagram worker,      *)
(* application consumer) and the datagram channel between them.            *)
(*                                                                         *)
(* Python values are kept with their dynamic type (PyInt, PyBytes) where   *)
(* the code's behaviour depends on it, and a call is modelled by the way   *)
(* Python binds its arguments to the callee's parameter list.  A call      *)
(* yields a result: a value, None, or a raised exception.                  *)
(***************************************************************************)
EXTENDS Integers, Sequences, FiniteSets, TLC

(* ------------------------------ bounds -------------------------------- *)

\* Longest application payload, in bytes.
MaxLen == 3
\* Largest max_packet_size (MSS) a transfer is run with.
MaxMSS == 2
\* Largest sender window_size a transfer is run with.
MaxWindow == 2
\* Most retransmissions of the timeout worker that are explored.
MaxRetrans == 2
\* Most ACKs the sender counts, and most DATA packets the receiver counts.
MaxAcks == 3
MaxPackets == 3

\* The payload alphabet: the byte values of "A" and "B".
PayloadBytes == {65, 66}

(* -------------------------- Python values ----------------------------- *)

PyInt(n) == [t |-> "int", v |-> n]
PyBytes(b) == [t |-> "bytes", v |-> b]
PyStr(s) == [t |-> "str", v |-> s]

Return(x) == [kind |-> "value", val |-> x]
ReturnNone == [kind |-> "None", val |-> <<>>]
Raise(e) == [kind |-> "raise", val |-> e]

Raised(r) == r.kind = "raise"
IsPacket(r) == r.kind = "value"

(* ---------------------------- packet.py ------------------------------- *)

\* PacketType flags.
DATA == 1
ACK == 2

\* struct.calcsize('!IIBHHH')
HEADER_SIZE == 15

\* window_size=5, the default of create_data_packet and create_ack_packet.
DefaultWindowSize == 5

\* flags & bit, for the one-bit masks of PacketType.
HasFlag(flags, bit) == (flags \div bit) % 2 = 1

\* Packet.__init__(seq_num, ack_num, flags, window_size, data): data is kept
\* when it is bytes and encoded otherwise; only a str has encode().
Packet(seq_num, ack_num, flags, window_size, data) ==
    IF data.t \in {"bytes", "str"}
    THEN Return([seq_num     |-> seq_num.v,
                 ack_num     |-> ack_num.v,
                 flags       |-> flags.v,
                 window_size |-> window_size.v,
                 data        |-> data.v,
                 data_length |-> Len(data.v),
                 checksum    |-> 0])
    ELSE Raise("AttributeError")

\* struct.pack big-endian unsigned fields.
BE1(n) == <<n % 256>>
BE2(n) == <<(n \div 256) % 256, n % 256>>
BE4(n) == <<(n \div 16777216) % 256, (n \div 65536) % 256,
            (n \div 256) % 256, n % 256>>

\* struct.unpack of the same fields, at offset i (1-based) of byte sequence s.
U1(s, i) == s[i]
U2(s, i) == s[i] * 256 + s[i + 1]
U4(s, i) == s[i] * 16777216 + s[i + 1] * 65536 + s[i + 2] * 256 + s[i + 3]

\* struct.pack('!IIBHH', ...): the five header fields the checksum covers.
PackHeader5(p) ==
    BE4(p.seq_num) \o BE4(p.ack_num) \o BE1(p.flags) \o
    BE2(p.window_size) \o BE2(p.data_length)

\* The 16-bit digest of a byte string.  The code takes the first two bytes
\* of hashlib.md5; the model takes a position-weighted byte sum, which like
\* the digest is a function of the content alone and changes when any one
\* byte of a short datagram changes.
RECURSIVE WeightedSum(_, _)
WeightedSum(s, i) ==
    IF i > Len(s) THEN 0 ELSE i * s[i] + WeightedSum(s, i + 1)

Digest16(content) == (WeightedSum(content, 1) + Len(content)) % 65536

\* Packet.calculate_checksum
calculate_checksum(p) == Digest16(PackHeader5(p) \o p.data)

\* Packet.serialize: sets self.checksum, then header + data.  Yields the
\* packet as it is afterwards and the bytes.
serialize(p) ==
    LET q == [p EXCEPT !.checksum = calculate_checksum(p)]
    IN  [packet |-> q,
         bytes  |-> PackHeader5(q) \o BE2(q.checksum) \o q.data]

\* raw_data[a:b] of Python, 0-based and clamped to the sequence.
Slice(s, a, b) ==
    LET lo == IF a > Len(s) THEN Len(s) ELSE a
        hi == IF b > Len(s) THEN Len(s) ELSE b
    IN  IF hi <= lo THEN <<>> ELSE SubSeq(s, lo + 1, hi)

\* The body of Packet.deserialize with its three parameters bound.
deserialize(self, cls, raw_data) ==
    IF Len(raw_data) < HEADER_SIZE
    THEN ReturnNone
    ELSE LET data_length == U2(raw_data, 12)
             made == Packet(PyInt(U4(raw_data, 1)), PyInt(U4(raw_data, 5)),
                            PyInt(U1(raw_data, 9)), PyInt(U2(raw_data, 10)),
                            PyBytes(Slice(raw_data, HEADER_SIZE,
                                          HEADER_SIZE + data_length)))
         IN  Return([made.val EXCEPT !.checksum = U2(raw_data, 14)])

\* The parameter list of Packet.deserialize as the class defines it: a plain
\* function of the class, with no decorator binding any parameter.
deserialize_params == <<"self", "cls", "raw_data">>

\* Packet.deserialize(args...): a call through the class passes exactly the
\* positional arguments written; Python raises TypeError when required
\* parameters stay unbound.
Packet_deserialize(args) ==
    IF Len(args) # Len(deserialize_params)
    THEN Raise("TypeError")
    ELSE deserialize(args[1], args[2], args[3].v)

\* Packet.is_corrupt, is_ack, is_data
is_corrupt(p) == calculate_checksum(p) # p.checksum
is_ack(p) == HasFlag(p.flags, ACK)
is_data(p) == HasFlag(p.flags, DATA)

\* create_data_packet(type, seq_num, data, window_size=5), called with
\* positional arguments args: they bind to type, seq_num, data, window_size
\* in that order, and window_size takes its default when not given.
create_data_packet(args) ==
    IF Len(args) < 3 \/ Len(args) > 4
    THEN Raise("TypeError")
    ELSE LET seq_num == args[2]
             data == args[3]
             window_size == IF Len(args) = 4 THEN args[4]
                            ELSE PyInt(DefaultWindowSize)
         IN  Packet(seq_num, PyInt(0), PyInt(DATA), window_size, data)

\* create_ack_packet(ack_num, window_size=5)
create_ack_packet(ack_num, window_size) ==
    Packet(PyInt(0), ack_num, PyInt(ACK), window_size, PyBytes(<<>>))

(* ------------------------------ state --------------------------------- *)

VARIABLES
    \* the transfer: send_data's argument and the sender's constructor arguments
    data, window_size, max_packet_size,
    \* RDTSender
    sender_running, base, next_seq_num, send_buffer,
    packets_sent, retransmissions, acks_received_count,
    \* send_data: where the producer is, the chunk it is at, its local packet
    pc_send, chunk_i, packet,
    \* _receive_acks: where the worker is and the datagram recvfrom gave it
    pc_ack, ack_raw,
    \* the datagrams put on the wire towards the receiver and towards the sender
    wire_data, wire_ack,
    \* RDTReceiver
    receiver_running, expected_seq_num, receive_buffer, data_queue,
    packets_received, acks_sent, duplicates_received,
    \* _receive_packets: where the worker is and the datagram recvfrom gave it
    pc_rcv, rcv_raw,
    \* receive_all_data: the bytes accumulated so far
    all_data,
    \* whether a worker was ever handed a datagram its peer did not send
    impaired,
    \* whether a sendto of either socket ever raised
    sock_failed,
    \* the seq_nums whose first transmission the channel dropped
    lost_first,
    \* the codec exercised on its own: a packet, its bytes, what they decode to
    codec

transfer_vars == <<data, window_size, max_packet_size>>
sender_vars == <<base, next_seq_num, send_buffer, packets_sent,
                 retransmissions, acks_received_count>>
producer_vars == <<pc_send, chunk_i, packet>>
ackworker_vars == <<pc_ack, ack_raw>>
receiver_vars == <<expected_seq_num, receive_buffer, data_queue,
                   packets_received, acks_sent, duplicates_received>>
rcvworker_vars == <<pc_rcv, rcv_raw>>

vars == <<data, window_size, max_packet_size,
          sender_running, base, next_seq_num, send_buffer,
          packets_sent, retransmissions, acks_received_count,
          pc_send, chunk_i, packet, pc_ack, ack_raw,
          wire_data, wire_ack,
          receiver_running, expected_seq_num, receive_buffer, data_queue,
          packets_received, acks_sent, duplicates_received,
          pc_rcv, rcv_raw, all_data, impaired, sock_failed, lost_first,
          codec>>

(* ----------------------------- helpers -------------------------------- *)

\* Byte strings over PayloadBytes of length at most n.
RECURSIVE BytesUpTo(_)
BytesUpTo(n) ==
    IF n = 0 THEN {<<>>}
    ELSE LET shorter == BytesUpTo(n - 1)
         IN  shorter \cup {Append(s, b) : s \in shorter, b \in PayloadBytes}

\* chunks = [data[i:i+mss] for i in range(0, len(data), mss)]
Chunks(d, mss) ==
    [k \in 1..((Len(d) + mss - 1) \div mss) |->
        Slice(d, (k - 1) * mss, (k - 1) * mss + mss)]

\* The concatenation of a sequence of byte strings.
RECURSIVE Concat(_)
Concat(ss) == IF ss = <<>> THEN <<>> ELSE Head(ss) \o Concat(Tail(ss))

\* A placeholder for the producer's local `packet` before it is assigned.
NoPacket == [seq_num |-> 0, ack_num |-> 0, flags |-> 0, window_size |-> 0,
             data |-> <<>>, data_length |-> 0, checksum |-> 0]

\* A dict with key k set to value x.
SetKey(dict, k, x) ==
    [j \in (DOMAIN dict) \cup {k} |-> IF j = k THEN x ELSE dict[j]]

\* A dict without the keys in ks.
DelKeys(dict, ks) == [j \in (DOMAIN dict) \ ks |-> dict[j]]

EmptyDict == [j \in {} |-> NoPacket]

\* The codec before it is exercised.
CodecIdle == [pc |-> "idle", packet |-> NoPacket, raw |-> <<>>, first |-> <<>>,
              calls |-> 0, damage |-> "none", at |-> 0, out |-> ReturnNone]

(* ----------------------------- channel -------------------------------- *)

\* A datagram with its last byte flipped in transit.
Corrupt(d) == [d EXCEPT ![Len(d)] = 255 - @]

\* Datagrams a socket can be handed that the peer never sent, as bytes: one
\* too short for a header; the ACK datagrams of ack_num 0 and 1 (flags ACK,
\* window 5, no payload) as serialize gives them; the first of these with its
\* last byte flipped; the DATA datagrams of seq_num 0 with payload "A" and of
\* seq_num 1 with payload "B" (flags DATA, window 5) as serialize gives them;
\* the first of these with its last byte flipped.
ShortDatagram == <<0, 0, 0>>
Ack0Datagram == <<0, 0, 0, 0, 0, 0, 0, 0, 2, 0, 5, 0, 0, 0, 86>>
Ack1Datagram == <<0, 0, 0, 0, 0, 0, 0, 1, 2, 0, 5, 0, 0, 0, 94>>
DamagedAckDatagram == <<0, 0, 0, 0, 0, 0, 0, 0, 2, 0, 5, 0, 0, 0, 169>>
Data0Datagram == <<0, 0, 0, 0, 0, 0, 0, 0, 1, 0, 5, 0, 1, 3, 233, 65>>
Data1Datagram == <<0, 0, 0, 1, 0, 0, 0, 0, 1, 0, 5, 0, 1, 3, 251, 66>>
DamagedDataDatagram == <<0, 0, 0, 0, 0, 0, 0, 0, 1, 0, 5, 0, 1, 3, 233, 190>>
ForeignDatagrams ==
    {ShortDatagram, Ack0Datagram, Ack1Datagram, DamagedAckDatagram,
     Data0Datagram, Data1Datagram, DamagedDataDatagram}

\* What recvfrom can give a worker whose peer has put `wire` on the wire: any
\* datagram sent so far, any number of times and in any order (or never),
\* intact or damaged, or a datagram from elsewhere.
Arrivals(wire) == wire \cup {Corrupt(d) : d \in wire} \cup ForeignDatagrams

(* ---------------------------- RDTSender ------------------------------- *)

\* RDTSender._send_packet: serialize, sendto, count.  sock_ok is whether
\* sendto succeeds; when it raises the exception is caught and printed.
send_packet(p, sock_ok) ==
    LET s == serialize(p)
    IN  [packet |-> s.packet,
         wire   |-> IF sock_ok THEN {s.bytes} ELSE {},
         sent   |-> IF sock_ok THEN 1 ELSE 0]

\* RDTSender.start
start_sender ==
    /\ ~sender_running
    /\ sender_running' = TRUE
    /\ UNCHANGED <<codec, lost_first, transfer_vars, sender_vars, producer_vars, ackworker_vars,
                   wire_data, wire_ack, receiver_running, receiver_vars,
                   rcvworker_vars, all_data, impaired, sock_failed>>

\* RDTSender.send_data, one step of the calling thread.  The application
\* calls it after start().  A datagram sendto accepted may be dropped by the
\* channel (lost): it is counted as sent and never reaches the wire.
send_data ==
    /\ sender_running
    /\ pc_send \notin {"returned", "raised"}
    /\ CASE pc_send = "call" ->
                \* chunks = [...]; for chunk in chunks
                /\ pc_send' = IF Chunks(data, max_packet_size) = <<>>
                              THEN "wait_acks" ELSE "wait_window"
                /\ chunk_i' = 1
                /\ UNCHANGED <<packet, sender_vars, wire_data, sock_failed,
                               lost_first>>
         [] pc_send = "wait_window" ->
                \* with self.lock: if next_seq_num < base + window_size: break
                /\ pc_send' = IF next_seq_num < base + window_size
                              THEN "create" ELSE "wait_window"
                /\ UNCHANGED <<chunk_i, packet, sender_vars, wire_data,
                               sock_failed, lost_first>>
         [] pc_send = "create" ->
                \* packet = create_data_packet(self.next_seq_num, chunk,
                \*                             self.window_size)
                \* self._send_packet(packet)
                LET made == create_data_packet(
                                <<PyInt(next_seq_num),
                                  PyBytes(Chunks(data, max_packet_size)[chunk_i]),
                                  PyInt(window_size)>>)
                IN  IF Raised(made)
                    THEN /\ pc_send' = "raised"
                         /\ UNCHANGED <<chunk_i, packet, sender_vars, wire_data,
                               sock_failed, lost_first>>
                    ELSE \E sock_ok \in BOOLEAN, lost \in BOOLEAN :
                            LET out == send_packet(made.val, sock_ok)
                            IN  /\ lost => sock_ok
                                /\ packet' = out.packet
                                /\ wire_data' = wire_data \cup
                                       (IF lost THEN {} ELSE out.wire)
                                /\ lost_first' =
                                       (IF lost THEN lost_first \cup {next_seq_num}
                                        ELSE lost_first)
                                /\ packets_sent' = packets_sent + out.sent
                                /\ pc_send' = "store"
                                /\ sock_failed' = (sock_failed \/ ~sock_ok)
                                /\ UNCHANGED <<chunk_i, base, next_seq_num,
                                               send_buffer, retransmissions,
                                               acks_received_count>>
         [] pc_send = "store" ->
                \* with self.lock: send_buffer[next_seq_num] = (packet, now);
                \*                 next_seq_num += 1
                /\ send_buffer' = SetKey(send_buffer, next_seq_num, packet)
                /\ next_seq_num' = next_seq_num + 1
                /\ chunk_i' = chunk_i + 1
                /\ pc_send' = IF chunk_i < Len(Chunks(data, max_packet_size))
                              THEN "wait_window" ELSE "wait_acks"
                /\ UNCHANGED <<packet, base, packets_sent, retransmissions,
                               acks_received_count, wire_data, sock_failed,
                               lost_first>>
         [] pc_send = "wait_acks" ->
                \* with self.lock: if base >= next_seq_num: break
                /\ pc_send' = IF base >= next_seq_num
                              THEN "returned" ELSE "wait_acks"
                /\ UNCHANGED <<chunk_i, packet, sender_vars, wire_data,
                               sock_failed, lost_first>>
    /\ UNCHANGED <<codec, transfer_vars, sender_running, ackworker_vars, wire_ack,
                   receiver_running, receiver_vars, rcvworker_vars, all_data,
                   impaired>>

\* RDTSender._handle_ack: the sender fields after the ACK is handled.
handle_ack(ack_packet) ==
    LET ack_num == ack_packet.ack_num
    IN  [acks_received_count |-> acks_received_count + 1,
         send_buffer |-> IF ack_num >= base
                         THEN DelKeys(send_buffer, base..ack_num)
                         ELSE send_buffer,
         base |-> IF ack_num >= base THEN ack_num + 1 ELSE base]

\* _receive_acks with acks_received_count counted at recvfrom, before the
\* datagram is looked at.
receive_acks_counting_arrivals ==
    /\ sender_running
    /\ CASE pc_ack = "recv" ->
                \E d \in Arrivals(wire_ack) :
                    /\ acks_received_count < MaxAcks
                    /\ ack_raw' = d
                    /\ pc_ack' = "got"
                    /\ impaired' = (impaired \/ d \notin wire_ack)
                    /\ acks_received_count' = acks_received_count + 1
                    /\ UNCHANGED <<base, next_seq_num, send_buffer,
                                   packets_sent, retransmissions>>
         [] pc_ack = "got" ->
                /\ pc_ack' = "recv"
                /\ UNCHANGED <<ack_raw, impaired, sender_vars>>
    /\ UNCHANGED <<codec, lost_first, transfer_vars, sender_running, producer_vars, wire_data,
                   wire_ack, receiver_running, receiver_vars, rcvworker_vars,
                   all_data, sock_failed>>

\* RDTSender._receive_acks, one step of the ACK-ingest worker: recvfrom, then
\* deserialize and dispatch.  An exception of the loop body is caught and
\* printed, and the loop goes on.
receive_acks ==
    /\ sender_running
    /\ CASE pc_ack = "recv" ->
                \E d \in Arrivals(wire_ack) :
                    /\ acks_received_count < MaxAcks
                    /\ ack_raw' = d
                    /\ pc_ack' = "got"
                    /\ impaired' = (impaired \/ d \notin wire_ack)
                    /\ UNCHANGED sender_vars
         [] pc_ack = "got" ->
                LET got == Packet_deserialize(<<PyBytes(ack_raw)>>)
                IN  /\ pc_ack' = "recv"
                    /\ UNCHANGED <<ack_raw, impaired>>
                    /\ IF Raised(got)
                       THEN UNCHANGED sender_vars
                       ELSE IF IsPacket(got) /\ is_ack(got.val)
                               /\ ~is_corrupt(got.val)
                            THEN LET h == handle_ack(got.val)
                                 IN  /\ acks_received_count' = h.acks_received_count
                                     /\ send_buffer' = h.send_buffer
                                     /\ base' = h.base
                                     /\ UNCHANGED <<next_seq_num, packets_sent,
                                                    retransmissions>>
                            ELSE UNCHANGED sender_vars
    /\ UNCHANGED <<codec, lost_first, transfer_vars, sender_running, producer_vars, wire_data,
                   wire_ack, receiver_running, receiver_vars, rcvworker_vars,
                   all_data, sock_failed>>

\* RDTSender._check_timeouts, one pass of the timeout worker under the lock:
\* the entries whose timestamp is older than the timeout (any subset, since
\* time is not modelled) are sent again, each counted as a retransmission;
\* failed holds those whose sendto raises.
check_timeouts ==
    /\ sender_running
    /\ \E timed_out \in SUBSET (DOMAIN send_buffer) :
         \E failed \in SUBSET timed_out :
            /\ retransmissions + Cardinality(timed_out) <= MaxRetrans
            /\ wire_data' = wire_data \cup
                   UNION {send_packet(send_buffer[q], q \notin failed).wire :
                          q \in timed_out}
            /\ packets_sent' = packets_sent + Cardinality(timed_out \ failed)
            /\ retransmissions' = retransmissions + Cardinality(timed_out)
            /\ send_buffer' =
                   [q \in DOMAIN send_buffer |->
                       IF q \in timed_out
                       THEN send_packet(send_buffer[q], TRUE).packet
                       ELSE send_buffer[q]]
            /\ sock_failed' = (sock_failed \/ failed # {})
    /\ UNCHANGED <<codec, lost_first, transfer_vars, sender_running, base, next_seq_num,
                   acks_received_count, producer_vars, ackworker_vars, wire_ack,
                   receiver_running, receiver_vars, rcvworker_vars, all_data,
                   impaired>>

(* --------------------------- RDTReceiver ------------------------------ *)

\* RDTReceiver.__init__(sock, window_size=5)
ReceiverWindowSize == 5

Max(a, b) == IF a >= b THEN a ELSE b

\* RDTReceiver.start
start_receiver ==
    /\ ~receiver_running
    /\ receiver_running' = TRUE
    /\ UNCHANGED <<codec, lost_first, transfer_vars, sender_running, sender_vars, producer_vars,
                   ackworker_vars, wire_data, wire_ack, receiver_vars,
                   rcvworker_vars, all_data, impaired, sock_failed>>

\* RDTReceiver._send_ack: build the ACK, sendto, count.  sock_ok is whether
\* sendto succeeds; when it raises the exception is caught and printed.
send_ack(ack_num, sock_ok) ==
    LET made == create_ack_packet(PyInt(IF ack_num < 0 THEN 0 ELSE ack_num),
                                  PyInt(ReceiverWindowSize))
    IN  [wire |-> IF sock_ok THEN {serialize(made.val).bytes} ELSE {},
         sent |-> IF sock_ok THEN 1 ELSE 0]

\* while self.expected_seq_num in self.receive_buffer: put, del, += 1
RECURSIVE deliver(_, _, _)
deliver(expected, buffer, queue) ==
    IF expected \in DOMAIN buffer
    THEN deliver(expected + 1, DelKeys(buffer, {expected}),
                 Append(queue, buffer[expected].data))
    ELSE [expected_seq_num |-> expected, receive_buffer |-> buffer,
          data_queue |-> queue]

\* RDTReceiver._handle_data_packet: the receiver fields afterwards, the ACK
\* datagrams put on the wire and whether the sendto of _send_ack raised.
handle_data_packet(p, sock_ok) ==
    IF is_corrupt(p)
    THEN [expected_seq_num |-> expected_seq_num,
          receive_buffer |-> receive_buffer,
          data_queue |-> data_queue,
          packets_received |-> packets_received,
          duplicates_received |-> duplicates_received,
          acks_sent |-> acks_sent,
          wire |-> {},
          failed |-> FALSE]
    ELSE IF p.seq_num < expected_seq_num
    THEN LET ack == send_ack(Max(0, expected_seq_num - 1), sock_ok)
         IN  [expected_seq_num |-> expected_seq_num,
              receive_buffer |-> receive_buffer,
              data_queue |-> data_queue,
              packets_received |-> packets_received + 1,
              duplicates_received |-> duplicates_received + 1,
              acks_sent |-> acks_sent + ack.sent,
              wire |-> ack.wire,
              failed |-> ~sock_ok]
    ELSE LET d == deliver(expected_seq_num,
                          SetKey(receive_buffer, p.seq_num, p), data_queue)
             ack == send_ack(Max(0, d.expected_seq_num - 1), sock_ok)
         IN  [expected_seq_num |-> d.expected_seq_num,
              receive_buffer |-> d.receive_buffer,
              data_queue |-> d.data_queue,
              packets_received |-> packets_received + 1,
              duplicates_received |-> duplicates_received,
              acks_sent |-> acks_sent + ack.sent,
              wire |-> ack.wire,
              failed |-> ~sock_ok]

\* _receive_packets with packets_received counted at recvfrom, before the
\* datagram is looked at.
receive_packets_counting_arrivals ==
    /\ receiver_running
    /\ CASE pc_rcv = "recv" ->
                \E d \in Arrivals(wire_data) :
                    /\ packets_received < MaxPackets
                    /\ rcv_raw' = d
                    /\ pc_rcv' = "got"
                    /\ impaired' = (impaired \/ d \notin wire_data)
                    /\ packets_received' = packets_received + 1
                    /\ UNCHANGED <<expected_seq_num, receive_buffer, data_queue,
                                   acks_sent, duplicates_received, wire_ack,
                                   sock_failed>>
         [] pc_rcv = "got" ->
                /\ pc_rcv' = "recv"
                /\ UNCHANGED <<rcv_raw, impaired, receiver_vars, wire_ack, sock_failed>>
    /\ UNCHANGED <<codec, lost_first, transfer_vars, sender_running, sender_vars, producer_vars,
                   ackworker_vars, wire_data, receiver_running, all_data>>

\* RDTReceiver._receive_packets, one step of the receiver worker: recvfrom,
\* then deserialize and dispatch.  An exception of the loop body is caught
\* and printed, and the loop goes on.
receive_packets ==
    /\ receiver_running
    /\ CASE pc_rcv = "recv" ->
                \E d \in Arrivals(wire_data) :
                    /\ packets_received < MaxPackets
                    /\ rcv_raw' = d
                    /\ pc_rcv' = "got"
                    /\ impaired' = (impaired \/ d \notin wire_data)
                    /\ UNCHANGED <<receiver_vars, wire_ack, sock_failed>>
         [] pc_rcv = "got" ->
                LET got == Packet_deserialize(<<PyBytes(rcv_raw)>>)
                IN  /\ pc_rcv' = "recv"
                    /\ UNCHANGED <<rcv_raw, impaired>>
                    /\ IF Raised(got)
                       THEN UNCHANGED <<receiver_vars, wire_ack, sock_failed>>
                       ELSE IF IsPacket(got) /\ is_data(got.val)
                            THEN \E sock_ok \in BOOLEAN :
                                   LET h == handle_data_packet(got.val, sock_ok)
                                   IN  /\ expected_seq_num' = h.expected_seq_num
                                       /\ receive_buffer' = h.receive_buffer
                                       /\ data_queue' = h.data_queue
                                       /\ packets_received' = h.packets_received
                                       /\ duplicates_received' = h.duplicates_received
                                       /\ acks_sent' = h.acks_sent
                                       /\ wire_ack' = wire_ack \cup h.wire
                                       /\ sock_failed' = (sock_failed \/ h.failed)
                            ELSE UNCHANGED <<receiver_vars, wire_ack, sock_failed>>
    /\ UNCHANGED <<codec, lost_first, transfer_vars, sender_running, sender_vars, producer_vars,
                   ackworker_vars, wire_data, receiver_running, all_data>>

\* RDTReceiver.receive_all_data, one pass of its loop in the application
\* thread: receive_data() takes the head of the queue, or nothing when the
\* queue stays empty for the poll; what it takes is appended to all_data.
receive_all_data ==
    /\ receiver_running
    /\ IF data_queue # <<>>
       THEN /\ all_data' = all_data \o Head(data_queue)
            /\ data_queue' = Tail(data_queue)
       ELSE UNCHANGED <<all_data, data_queue>>
    /\ UNCHANGED <<codec, lost_first, transfer_vars, sender_running, sender_vars, producer_vars,
                   ackworker_vars, wire_data, wire_ack, receiver_running,
                   expected_seq_num, receive_buffer, packets_received,
                   acks_sent, duplicates_received, rcvworker_vars, impaired,
                   sock_failed>>

(* -------------------------- specification ----------------------------- *)

\* The fields RDTSender.__init__ and RDTReceiver.__init__ set, the threads
\* not yet started and nothing on the wire.
Constructed ==
    /\ sender_running = FALSE
    /\ base = 0
    /\ next_seq_num = 0
    /\ send_buffer = EmptyDict
    /\ packets_sent = 0
    /\ retransmissions = 0
    /\ acks_received_count = 0
    /\ pc_send = "call"
    /\ chunk_i = 1
    /\ packet = NoPacket
    /\ pc_ack = "recv"
    /\ ack_raw = <<>>
    /\ wire_data = {}
    /\ wire_ack = {}
    /\ receiver_running = FALSE
    /\ expected_seq_num = 0
    /\ receive_buffer = EmptyDict
    /\ data_queue = <<>>
    /\ packets_received = 0
    /\ acks_sent = 0
    /\ duplicates_received = 0
    /\ pc_rcv = "recv"
    /\ rcv_raw = <<>>
    /\ all_data = <<>>
    /\ impaired = FALSE
    /\ sock_failed = FALSE
    /\ lost_first = {}

\* The state after construction, for every payload, window size and maximum
\* packet size within the bounds.
Init ==
    /\ data \in BytesUpTo(MaxLen)
    /\ window_size \in 1..MaxWindow
    /\ max_packet_size \in 1..MaxMSS
    /\ Constructed
    /\ codec = CodecIdle

Next ==
    \/ start_sender
    \/ start_receiver
    \/ send_data
    \/ receive_acks
    \/ check_timeouts
    \/ receive_packets
    \/ receive_all_data

Spec == Init /\ [][Next]_vars

(* ------------------------ the codec on its own ------------------------ *)

protocol_vars == <<transfer_vars, sender_running, sender_vars, producer_vars,
                   ackworker_vars, wire_data, wire_ack, receiver_running,
                   receiver_vars, rcvworker_vars, all_data, impaired,
                   sock_failed, lost_first>>

\* Well-formed packets, each field within its width: seq_num ('I') at 0, 1
\* and a value that uses all four of its bytes, window_size ('H') at the ends
\* of its range, every combination of the DATA and ACK flags, and every
\* payload up to the largest chunk.
SeqNums == {0, 1, 2147483647}
AckNums == {0, 1}
FlagValues == {0, DATA, ACK, DATA + ACK}
WindowSizes == {0, DefaultWindowSize, 65535}
WellFormedPackets ==
    {Packet(PyInt(s), PyInt(a), PyInt(f), PyInt(w), PyBytes(d)).val :
        s \in SeqNums, a \in AckNums, f \in FlagValues, w \in WindowSizes,
        d \in BytesUpTo(MaxMSS)}

\* A packet has been constructed; no transfer is under way.
CodecInit ==
    /\ data = <<>>
    /\ window_size = 1
    /\ max_packet_size = 1
    /\ Constructed
    /\ codec \in {[CodecIdle EXCEPT !.pc = "made", !.packet = p] :
                     p \in WellFormedPackets}

\* packet.serialize(), a first and a second time on the same packet.
codec_serialize ==
    /\ codec.pc \in {"made", "serialized"}
    /\ codec.damage = "none"
    /\ codec.calls < 2
    /\ LET s == serialize(codec.packet)
       IN  codec' = [codec EXCEPT !.pc = "serialized",
                                  !.packet = s.packet,
                                  !.raw = s.bytes,
                                  !.first = IF codec.calls = 0 THEN s.bytes ELSE @,
                                  !.calls = @ + 1]
    /\ UNCHANGED protocol_vars

\* The bytes with byte k inverted (corrupted_data[k] ^= 0xFF), with the last
\* byte missing, with one byte more, or cut to less than a header.
Damaged(raw, kind, k) ==
    CASE kind = "flip" -> [raw EXCEPT ![k] = 255 - @]
      [] kind = "drop" -> Slice(raw, 0, Len(raw) - 1)
      [] kind = "extend" -> Append(raw, 90)
      [] kind = "cut" -> Slice(raw, 0, HEADER_SIZE - 1)

\* The serialized bytes are altered before they are decoded.  The top byte
\* of seq_num and of ack_num is not the one inverted: the field would then
\* exceed the integers the model computes with.
codec_damage ==
    /\ codec.pc = "serialized"
    /\ codec.damage = "none"
    /\ \E kind \in {"flip", "drop", "extend", "cut"} :
         \E k \in 1..Len(codec.raw) :
            /\ IF kind = "flip" THEN k \notin {1, 5} ELSE k = 1
            /\ codec' = [codec EXCEPT !.raw = Damaged(codec.raw, kind, k),
                                       !.damage = kind,
                                       !.at = k]
    /\ UNCHANGED protocol_vars

\* Packet.deserialize(serialized), called on the class with the bytes.
codec_deserialize ==
    /\ codec.pc = "serialized"
    /\ codec' = [codec EXCEPT !.pc = "deserialized",
                               !.out = Packet_deserialize(<<PyBytes(codec.raw)>>)]
    /\ UNCHANGED protocol_vars

CodecNext ==
    \/ codec_serialize
    \/ codec_damage
    \/ codec_deserialize

CodecSpec == CodecInit /\ [][CodecNext]_vars

(* ------------------------------ fairness ------------------------------ *)

\* The receiver worker is handed, intact, the datagram the sender sent with
\* seq_num q.
recv_intact_data(q) ==
    /\ receive_packets
    /\ pc_rcv = "recv"
    /\ rcv_raw' \in wire_data
    /\ U4(rcv_raw', 1) = q

\* The ACK-ingest worker is handed, intact, the datagram the receiver sent
\* with ack_num a.
recv_intact_ack(a) ==
    /\ receive_acks
    /\ pc_ack = "recv"
    /\ ack_raw' \in wire_ack
    /\ U4(ack_raw', 5) = a

\* A worker that holds a datagram goes on to process it.
process_ack == receive_acks /\ pc_ack = "got"
process_packet == receive_packets /\ pc_rcv = "got"

\* The threads of rdt.py are operating-system threads and each is scheduled
\* again and again; the channel may lose, damage, repeat and reorder, but a
\* datagram that stays on offer is handed over intact again and again.  A
\* worker whose recvfrom times out loops without a change of state, so
\* nothing obliges the channel to hand over a datagram nobody sent.
FairSpec ==
    /\ Spec
    /\ WF_vars(start_sender)
    /\ WF_vars(start_receiver)
    /\ WF_vars(send_data)
    /\ WF_vars(process_ack)
    /\ WF_vars(check_timeouts)
    /\ WF_vars(process_packet)
    /\ WF_vars(receive_all_data)
    /\ \A q \in 0..(MaxLen - 1) : SF_vars(recv_intact_data(q))
    /\ \A a \in 0..(MaxLen - 1) : SF_vars(recv_intact_ack(a))

(* ------------------------------- claims ------------------------------- *)

\* The payloads the receiver has handed to the application so far, in order:
\* what receive_all_data has accumulated and what still waits in the queue.
Delivered == all_data \o Concat(data_queue)

NumChunks == Len(Chunks(data, max_packet_size))

\* C1: under a fair schedule and a fair channel, a transfer of n >= 1 chunks
\* ends with every chunk delivered at the receiver and send_data returned.
C1_EventualDelivery ==
    (NumChunks >= 1) ~> (pc_send = "returned" /\ expected_seq_num >= NumChunks
                         /\ Delivered = data)

\* C2: over a channel that hands each worker only what its peer sent, once
\* send_data has ended it has returned (not raised) and the payloads the
\* receiver delivered, concatenated, are exactly the input.
C2_CleanRoundTrip ==
    (~impaired /\ pc_send \in {"returned", "raised"})
        => (pc_send = "returned" /\ Delivered = data)

\* What a datagram decodes to: Packet.deserialize's body with raw_data bound.
Decoded(raw) == deserialize("Packet", "Packet", raw)

\* A datagram that is a valid ACK: it decodes, has the ACK flag, is intact.
ValidAck(raw) ==
    /\ IsPacket(Decoded(raw))
    /\ is_ack(Decoded(raw).val)
    /\ ~is_corrupt(Decoded(raw).val)

\* C10: the step in which the ACK-ingest worker processes a valid ACK with
\* ack_num = a counts it; when a >= base it empties send_buffer of the keys
\* base..a and sets base to a + 1; when a < base it leaves base and
\* send_buffer alone; next_seq_num stays as it is.
C10_AckIngestStep ==
    [][(pc_ack = "got" /\ pc_ack' = "recv" /\ ValidAck(ack_raw)) =>
         LET a == Decoded(ack_raw).val.ack_num
         IN  /\ acks_received_count' = acks_received_count + 1
             /\ next_seq_num' = next_seq_num
             /\ a >= base => /\ base' = a + 1
                             /\ (DOMAIN send_buffer') \cap (base..a) = {}
             /\ a < base => /\ base' = base
                            /\ send_buffer' = send_buffer]_vars

\* A datagram that is a valid DATA packet: it decodes, has the DATA flag, is
\* intact.
ValidData(raw) ==
    /\ IsPacket(Decoded(raw))
    /\ is_data(Decoded(raw).val)
    /\ ~is_corrupt(Decoded(raw).val)

\* C11: the receiver worker's steps on a datagram that does not decode, lacks
\* the DATA flag or is corrupt (taking it from the socket, then processing
\* it) leave expected_seq_num, receive_buffer, data_queue, packets_received,
\* duplicates_received and acks_sent as they were and put no ACK on the wire.
C11_ReceiverDiscardsInvalid ==
    [][((pc_rcv = "recv" /\ pc_rcv' = "got" /\ ~ValidData(rcv_raw'))
        \/ (pc_rcv = "got" /\ pc_rcv' = "recv" /\ ~ValidData(rcv_raw)))
       => UNCHANGED <<receiver_vars, wire_ack>>]_vars

\* The receiver worker has taken a corrupt DATA datagram and is done with it.
C11_DiscardedCorruptData ==
    /\ pc_rcv = "recv"
    /\ rcv_raw = DamagedDataDatagram
    /\ ~ValidData(rcv_raw)
    /\ is_data(Decoded(rcv_raw).val)

\* C14: the step in which the receiver worker processes a valid DATA datagram
\* counts the packet and, unless a sendto raised, counts one ACK and has the
\* cumulative ACK for the new expected_seq_num on the wire; and while no
\* sendto has raised, the worker between datagrams has acks_sent equal to
\* packets_received.
C14_OneAckPerValidData ==
    [][/\ (pc_rcv = "got" /\ pc_rcv' = "recv" /\ ValidData(rcv_raw)) =>
            /\ packets_received' = packets_received + 1
            /\ ~sock_failed' =>
                  /\ acks_sent' = acks_sent + 1
                  /\ send_ack(Max(0, expected_seq_num' - 1), TRUE).wire
                         \subseteq wire_ack'
       /\ (pc_rcv' = "recv" /\ ~sock_failed') =>
               acks_sent' = packets_received']_vars

\* C16: for an input of L bytes, send_data builds for its i-th chunk (from 0)
\* a DATA packet with seq_num i carrying the input bytes i*MSS up to
\* min((i+1)*MSS, L); once past its chunk loop it has first-transmitted
\* ceil(L / MSS) packets and has not raised; for L = 0 it transmits nothing
\* and its wait for ACKs is over at once.
C16_Segmentation ==
    LET L == Len(data)
        MSS == max_packet_size
        i == chunk_i - 1
        upto == IF (i + 1) * MSS < L THEN (i + 1) * MSS ELSE L
    IN  /\ pc_send = "store" =>
              /\ packet.seq_num = i
              /\ is_data(packet)
              /\ packet.data = SubSeq(data, i * MSS + 1, upto)
        /\ pc_send \in {"wait_acks", "returned", "raised"} =>
              /\ pc_send # "raised"
              /\ next_seq_num = (L + MSS - 1) \div MSS
        /\ L = 0 =>
              /\ wire_data = {}
              /\ pc_send \in {"call", "wait_acks", "returned"}
              /\ pc_send = "wait_acks" => base >= next_seq_num

\* C17: the bytes serialize gives for a well-formed packet p decode, by
\* Packet.deserialize called on them, to a packet with p's seq_num, ack_num,
\* flags, window_size, data_length and data, whose checksum is the one in
\* the bytes and which is not corrupt; and a second serialize of the same
\* packet gives the bytes of the first.
C17_CodecRoundTrip ==
    /\ (codec.calls = 2 /\ codec.damage = "none") => codec.raw = codec.first
    /\ (codec.pc = "deserialized" /\ codec.damage = "none") =>
          /\ IsPacket(codec.out)
          /\ codec.out.val.seq_num = codec.packet.seq_num
          /\ codec.out.val.ack_num = codec.packet.ack_num
          /\ codec.out.val.flags = codec.packet.flags
          /\ codec.out.val.window_size = codec.packet.window_size
          /\ codec.out.val.data_length = codec.packet.data_length
          /\ codec.out.val.data = codec.packet.data
          /\ codec.out.val.checksum = U2(codec.raw, 14)
          /\ ~is_corrupt(codec.out.val)

\* C18: Packet.deserialize called on bytes gives None when they are fewer
\* than 15 or not exactly 15 + the data_length they carry; otherwise it gives
\* a packet whose checksum is the one the bytes carry, so that bytes with an
\* inverted payload byte decode to a packet that is_corrupt reports.
C18_FramingVersusCorruption ==
    codec.pc = "deserialized" =>
        IF Len(codec.raw) < HEADER_SIZE
           \/ Len(codec.raw) # HEADER_SIZE + U2(codec.raw, 12)
        THEN codec.out.kind = "None"
        ELSE /\ IsPacket(codec.out)
             /\ codec.out.val.checksum = U2(codec.raw, 14)
             /\ (codec.damage = "flip" /\ codec.at > HEADER_SIZE)
                    => is_corrupt(codec.out.val)

\* C19: the ACK-ingest worker's steps on a datagram that does not decode,
\* lacks the ACK flag or is corrupt (taking it from the socket, then
\* processing it) leave base, next_seq_num, send_buffer and
\* acks_received_count as they were, and after processing it the worker is
\* back at recvfrom with the sender still running.
C19_SenderIgnoresInvalidAcks ==
    [][/\ ((pc_ack = "recv" /\ pc_ack' = "got" /\ ~ValidAck(ack_raw'))
           \/ (pc_ack = "got" /\ pc_ack' # "got" /\ ~ValidAck(ack_raw)))
          => UNCHANGED <<base, next_seq_num, send_buffer, acks_received_count>>
       /\ (pc_ack = "got" /\ pc_ack' # "got" /\ ~ValidAck(ack_raw))
          => (pc_ack' = "recv" /\ sender_running')]_vars

\* The ACK-ingest worker has taken a corrupt ACK datagram and is done with it.
C19_IgnoredCorruptAck ==
    /\ sender_running
    /\ pc_ack = "recv"
    /\ ack_raw = DamagedAckDatagram
    /\ ~ValidAck(ack_raw)
    /\ is_ack(Decoded(ack_raw).val)

\* The first sequence number from q on that the buffer does not hold.
RECURSIVE RunEnd(_, _)
RunEnd(buffer, q) == IF q \in DOMAIN buffer THEN RunEnd(buffer, q + 1) ELSE q

\* C20: the step in which the receiver worker processes an intact DATA
\* packet of seq s that arrives for the first time: ahead of expected_seq_num
\* it is buffered and nothing is delivered; at expected_seq_num it and the
\* contiguous run buffered behind it are delivered in ascending seq order,
\* expected_seq_num moves past the run and, unless a sendto raised, the ACK
\* of the last delivered seq is on the wire (n - 1 when the run completes a
\* transfer of n packets).
C20_Reordering ==
    [][(pc_rcv = "got" /\ pc_rcv' = "recv" /\ ValidData(rcv_raw)) =>
         LET p == Decoded(rcv_raw).val
             s == p.seq_num
             e == RunEnd(receive_buffer, s + 1)
         IN  /\ s > expected_seq_num =>
                   /\ s \in DOMAIN receive_buffer'
                   /\ receive_buffer'[s].data = p.data
                   /\ data_queue' = data_queue
                   /\ expected_seq_num' = expected_seq_num
             /\ s = expected_seq_num =>
                   /\ expected_seq_num' = e
                   /\ data_queue' = data_queue \o
                          [k \in 1..(e - s) |->
                              IF k = 1 THEN p.data
                              ELSE receive_buffer[s + k - 1].data]
                   /\ (DOMAIN receive_buffer') \cap (s..(e - 1)) = {}
                   /\ ~sock_failed' =>
                          send_ack(e - 1, TRUE).wire \subseteq wire_ack']_vars

\* C21: under a fair schedule and a fair channel, a transfer of n >= 2 chunks
\* in which the channel drops at most the first transmission of one seq >= 1
\* and otherwise hands each worker what its peer sent, with no sendto
\* raising, ends with send_data returned and the delivered payloads equal to
\* the input, none delivered twice; and when a first transmission was
\* dropped, the timeout worker has retransmitted at least once.
C21_SingleLossRecovery ==
    (NumChunks >= 2) ~>
        \/ impaired
        \/ sock_failed
        \/ Cardinality(lost_first) > 1
        \/ 0 \in lost_first
        \/ /\ pc_send = "returned"
           /\ Delivered = data
           /\ duplicates_received = 0
           /\ lost_first # {} => retransmissions >= 1

====
